---------------------------- MODULE Spec2Model ----------------------------
(***************************************************************************)
(* Transfer-credit evaluation platform: the matching-and-lifecycle         *)
(* pipeline (upload -> text extraction -> extracted courses -> matching    *)
(* orchestrator -> evaluator decisions), modelled at the granularity of    *)
(* storage commits.  Every action is one request handler, or the part of a *)
(* background task between two commits; what a session has not committed   *)
(* is invisible to the others, so it is not part of the state.  The        *)
(* background tasks run beside the request handlers (several worker        *)
(* processes); the requests of the evaluators are served one at a time.    *)
(*                                                                         *)
(* Environment assumptions: the storage itself is available (a commit      *)
(* fails only on a constraint the program's own rows violate), the target  *)
(* catalog is edited only in the specification of the catalog, and the     *)
(* responses of the external model are arbitrary JSON values.              *)
(***************************************************************************)
EXTENDS Integers, Sequences, FiniteSets, TLC

\* ------------------------------------------------------------- bounds
MaxExtract     == 2    \* course dictionaries in one extraction response
MaxRespLen     == 4    \* entries in one raw ranking response
MaxMatchId     == 4    \* CourseMatch ids the sequence hands out
MaxClock       == 2    \* readings of the wall clock by decisions
MaxPages       == 2    \* pages of one document

\* ------------------------------------------------- program constants
TopN == 3              \* find_similar_courses(..., top_n: int = 3)
MockCourses == 2       \* length of _mock_transcript_extraction()

NULL == 0              \* SQL NULL / Python None for ids and timestamps
NoText == "<null>"     \* SQL NULL for text columns

\* SubmissionStatus as src/backend/app/models/submission.py declares it.
SubmissionStatus ==
    {"draft", "pending", "processing", "in_review", "completed", "rejected"}

\* EvaluationDecision as src/backend/app/models/evaluation.py declares it.
EvaluationDecision == {"pending", "approved", "denied", "more_info_needed"}

\* The members the pipeline and the evaluation handlers name.
PENDING          == "pending"
PROCESSING       == "processing"
READY_FOR_REVIEW == "ready_for_review"
IN_REVIEW        == "in_review"
COMPLETED        == "completed"
FAILED           == "failed"
APPROVED         == "approved"

NoCoursesError == "No courses extracted from transcript"

\* The transcripts uploaded, the catalog (ids of the TargetCourse rows) and
\* the evaluator accounts.
Transcripts == {1}
TargetIds  == {1}
Evaluators == {1}

\* Two transcripts, for the specification of the submissions side by side.
TwoTranscripts == {1, 2}

\* Two evaluator accounts, for the specification of the review.
Reviewers == {1, 2}

\* A TargetCourse row that stays out of the active catalog: its is_active
\* is 0 from the start and no request changes it.
Retired == {2}

\* The ids of all the TargetCourse rows, active or not.
AllTargets == TargetIds \cup Retired

\* An id that no TargetCourse row has.
UnknownTarget == Cardinality(AllTargets) + 1

\* The decisions the explored requests carry.  The handlers compare a
\* decision with APPROVED and with PENDING only, so "denied" stands for
\* "more_info_needed" as well.
Decisions == {"pending", "approved", "denied"}

\* One element of a parsed model response: a dictionary carrying
\* target_course_id (0: absent, or an id of no TargetCourse) and
\* similarity_score (0 also when absent: match.get("similarity_score", 0)),
\* or a JSON value that is no dictionary.
Scored(t, score) ==
    [dict |-> TRUE, target_course_id |-> t, similarity_score |-> score]
Entry(t) == Scored(t, 0)
Junk == [dict |-> FALSE, target_course_id |-> NULL, similarity_score |-> 0]
RankElems == {Entry(t) : t \in {NULL} \cup TargetIds} \cup {Junk}

\* Scores a response can carry: the prompt asks for 0-100, the column
\* Numeric(5, 2) holds more.
Scores == {40, 90, 150}

\* One element of an extraction response: a course dictionary whose values
\* fit the columns, one whose values the storage refuses at flush, or a JSON
\* value that is no dictionary.
CourseElems == {"ok", "bad_value", "junk"}

SeqsUpTo(S, n) == UNION {[1..k -> S] : k \in 0..n}

\* A raw response: the call failed or its text did not parse ("error"), or
\* the parsed list.
RankResponses    == {<<"error">>} \cup {<<"list", l>> : l \in SeqsUpTo(RankElems, MaxRespLen)}
ExtractResponses == {<<"error">>} \cup {<<"list", l>> : l \in SeqsUpTo(CourseElems, MaxExtract)}

\* The responses whose entries name a target course and carry a score.
ScoredResponses ==
    {<<"list", l>> :
        l \in SeqsUpTo({Scored(t, sc) : t \in TargetIds, sc \in Scores},
                       MaxRespLen)}

\* The responses whose entries name a row of the TargetCourse table, active
\* or not, or an id that no row has.
CatalogResponses ==
    {<<"list", l>> :
        l \in SeqsUpTo({Entry(t) : t \in AllTargets \cup {UnknownTarget}},
                       MaxRespLen)}

\* One ranking response for each way _match_single_course can end without a
\* row being stored: no matches, the commit refused, match.get raising
\* first, and match.get raising after a row the storage refuses.
BasicRankResponses ==
    {<<"error">>, <<"list", <<Entry(NULL)>>>>, <<"list", <<Junk>>>>,
     <<"list", <<Entry(NULL), Junk>>>>}

\* A ranking response that stores one row, beside those that store none.
StoringRankResponses ==
    BasicRankResponses \cup {<<"list", <<Entry(t)>>>> : t \in TargetIds}

\* ------------------------------------------------------ PDF documents
\* What page.extract_text() gives for one page: nothing (None or ""), white
\* space, or text.
PageTexts == {<<>>, <<" ">>, <<"x">>}

Whitespace == {" ", "\n"}

\* What one library makes of a document: it raises, or it reads the pages.
Readings ==
    {[raises |-> TRUE, pages |-> <<>>]}
        \cup {[raises |-> FALSE, pages |-> p] : p \in SeqsUpTo(PageTexts, MaxPages)}

\* A path without a file behind it.
MissingFile ==
    [exists |-> FALSE,
     pdfplumber |-> [raises |-> TRUE, pages |-> <<>>],
     pypdf2     |-> [raises |-> TRUE, pages |-> <<>>]]

\* The documents a path can lead to.
Files ==
    {MissingFile}
        \cup {[exists |-> TRUE, pdfplumber |-> a, pypdf2 |-> b] :
                  a \in Readings, b \in Readings}

\* The two callers of _match_single_course, each with a session of its own:
\* the orchestrator run and the syllabus-triggered rematch.
Matchers == {"run", "rematch"}

\* A session with nothing pending.
NoWork == [course |-> NULL, seen |-> {}, ms |-> <<>>]

\* extract_text not called yet.
NotCalled == [exc |-> "not called", text |-> <<>>, tried |-> <<>>]

VARIABLES
    credential,     \* settings.GEMINI_API_KEY is set
    active,         \* ids of the TargetCourse rows with is_active = 1
    submissions,    \* Submission rows, by id
    courses,        \* ExtractedCourse rows, by id: the owning submission
    evaluations,    \* Evaluation rows, by id
    matches,        \* CourseMatch rows
    next_match_id,  \* the CourseMatch id sequence
    task,           \* the background task of each submission
    clock,          \* datetime.utcnow()
    response,       \* outcome of the last request or single-course rematch
    pdf,            \* a call of extract_text: the document and the outcome
    session,        \* what each matcher's session has not committed yet
    request         \* the course of the decide call each evaluator has open

vars == <<credential, active, submissions, courses, evaluations, matches,
          next_match_id, task, clock, response, pdf, session, request>>

config  == <<credential, active>>

\* The state of the calls that the specifications of single operations
\* follow; the handlers of the lifecycle leave it alone.
detail  == <<pdf, session, request>>

\* ------------------------------------------------------------ helpers
Min(a, b) == IF a < b THEN a ELSE b

Submission(st) ==
    [status |-> st, processing_error |-> NoText,
     completed_at |-> NULL, reviewed_by |-> NULL]

\* A background task: where it stands, the turn of the run's loop, what the
\* run returned, and the ids of the target courses the run has loaded.
Task(pc) == [pc |-> pc, idx |-> 0, result |-> "none", targets |-> {}]

\* db.query(ExtractedCourse).filter(submission_id == s).all(), in id order
CoursesOf(cs, s) == {c \in DOMAIN cs : cs[c] = s}

\* ext_course.evaluation: the Evaluation rows that reference course c
EvaluationsOf(es, c) == {e \in DOMAIN es : es[e].extracted_course_id = c}

MatchesOf(ms, c) == {m \in ms : m.extracted_course_id = c}

\* ----------------------------------------------------------- PDFParser
\* "\n\n".join(text_parts)
RECURSIVE Join(_)
Join(parts) ==
    IF parts = <<>> THEN <<>>
    ELSE IF Len(parts) = 1 THEN parts[1]
    ELSE parts[1] \o <<"\n", "\n">> \o Join(Tail(parts))

\* not full_text.strip()
IsBlank(t) == \A i \in 1..Len(t) : t[i] \in Whitespace

\* full_text: the texts of the pages that have one, joined.
FullText(reading) == Join(SelectSeq(reading.pages, LAMBDA p : p # <<>>))

\* A strategy that returns the joined text without looking at it.
extract_with_unchecked(reading) ==
    IF reading.raises THEN [ok |-> FALSE, text |-> <<>>]
    ELSE [ok |-> TRUE, text |-> FullText(reading)]

\* _extract_with_pdfplumber and _extract_with_pypdf2, on what the library
\* reads: the joined text, ValueError when nothing but white space is in it.
extract_with(reading) ==
    IF reading.raises THEN [ok |-> FALSE, text |-> <<>>]
    ELSE IF IsBlank(FullText(reading)) THEN [ok |-> FALSE, text |-> <<>>]
    ELSE [ok |-> TRUE, text |-> FullText(reading)]

\* extract_text: the exception raised ("none" when it returns), the text
\* returned and the strategies tried, in order.
extract_text(file) ==
    IF ~file.exists
    THEN [exc |-> "FileNotFoundError", text |-> <<>>, tried |-> <<>>]
    ELSE LET p == extract_with(file.pdfplumber)
             q == extract_with(file.pypdf2)
         IN  IF p.ok
             THEN [exc |-> "none", text |-> p.text, tried |-> <<"pdfplumber">>]
             ELSE IF q.ok
             THEN [exc |-> "none", text |-> q.text,
                   tried |-> <<"pdfplumber", "pypdf2">>]
             ELSE [exc |-> "RuntimeError", text |-> <<>>,
                   tried |-> <<"pdfplumber", "pypdf2">>]

\* ------------------------------------------- Course Ranking Client
\* extract_transcript_data falling back on the mock list when the call or
\* the parse raised.
extract_transcript_data_mocking(cred, raw) ==
    IF ~cred \/ raw[1] = "error" THEN [i \in 1..MockCourses |-> "ok"]
    ELSE raw[2]

\* extract_transcript_data: the mock list without a credential, else the
\* parsed response, [] when the call or the parse raised.
extract_transcript_data(cred, raw) ==
    IF ~cred THEN [i \in 1..MockCourses |-> "ok"]
    ELSE IF raw[1] = "error" THEN <<>>
    ELSE raw[2]

\* find_similar_courses returning the whole parsed response.
find_similar_courses_untruncated(cred, targets, raw, top_n) ==
    IF ~cred \/ targets = {} THEN <<>>
    ELSE IF raw[1] = "error" THEN <<>>
    ELSE raw[2]

\* find_similar_courses: [] without a credential or a catalog, [] when the
\* call or the parse raised, else the first top_n entries of the response.
find_similar_courses(cred, targets, raw, top_n) ==
    IF ~cred \/ targets = {} THEN <<>>
    ELSE IF raw[1] = "error" THEN <<>>
    ELSE SubSeq(raw[2], 1, Min(Len(raw[2]), top_n))

\* ---------------------------------- process_transcript_background, loop
\* The Evaluation created for a freshly flushed course.
PendingEvaluation(c) ==
    [extracted_course_id |-> c, decision |-> "pending",
     approved_target_course_id |-> NULL, evaluator_id |-> NULL]

\* for course_data in courses_data: add the course, flush, add its pending
\* Evaluation.  exc is "none", "AttributeError" (course_data has no .get)
\* or "DataError" (the flush of the course row failed).
RECURSIVE Materialize(_, _, _, _, _)
Materialize(s, data, i, cs, es) ==
    IF i > Len(data) THEN [courses |-> cs, evaluations |-> es, exc |-> "none"]
    ELSE IF data[i] = "junk"
        THEN [courses |-> cs, evaluations |-> es, exc |-> "AttributeError"]
    ELSE IF data[i] = "bad_value"
        THEN [courses |-> cs, evaluations |-> es, exc |-> "DataError"]
    ELSE Materialize(s, data, i + 1, Append(cs, s),
                     Append(es, PendingEvaluation(Len(cs) + 1)))

\* --------------------------------------------- _match_single_course
CourseMatch(id, c, t, score, rank) ==
    [id |-> id, extracted_course_id |-> c, target_course_id |-> t,
     similarity_score |-> score, match_rank |-> rank]

\* for rank, match in enumerate(matches, 1): the rows added to the session
\* before the loop ends or match.get raises on a value that is no dictionary.
RECURSIVE BuildRows(_, _, _, _, _)
BuildRows(c, ms, rank, first_id, rows) ==
    IF rank > Len(ms) THEN [rows |-> rows, exc |-> "none"]
    ELSE IF ~ms[rank].dict THEN [rows |-> rows, exc |-> "AttributeError"]
    ELSE BuildRows(c, ms, rank + 1, first_id,
                   rows \cup {CourseMatch(first_id + rank - 1, c,
                                          ms[rank].target_course_id,
                                          ms[rank].similarity_score, rank)})

\* The flush of new CourseMatch rows succeeds when each references an
\* existing TargetCourse (target_course_id is NOT NULL and a foreign key).
FlushOK(rows) == \A m \in rows : m.target_course_id \in AllTargets

\* _match_single_course with a delete that has lost its filter.
match_single_course_delete_all(c, ms, all, first_id) ==
    LET b == BuildRows(c, ms, 1, first_id, {})
    IN  [matches |-> b.rows, rows |-> b.rows, exc |-> b.exc]

\* The session after the delete and the inserts, before the commit.
match_single_course(c, ms, all, first_id) ==
    LET b == BuildRows(c, ms, 1, first_id, {})
    IN  [matches |-> (all \ MatchesOf(all, c)) \cup b.rows,
         rows    |-> b.rows,
         exc     |-> b.exc]

\* ---------------------------------------------------------------- Init
Init ==
    /\ credential \in BOOLEAN
    /\ active \in SUBSET TargetIds
    /\ submissions = <<>>
    /\ courses = <<>>
    /\ evaluations = <<>>
    /\ matches = {}
    /\ next_match_id = 1
    /\ task = <<>>
    /\ clock = 0
    /\ response = "none"
    /\ pdf = [file |-> MissingFile, result |-> NotCalled]
    /\ session = [w \in Matchers |-> NoWork]
    /\ request = [ev \in Reviewers |-> NULL]

\* ------------------------------------------------------------- uploads
\* upload_transcript: a pending Submission and its background task.
upload_transcript ==
    /\ Len(submissions) < Cardinality(Transcripts)
    /\ submissions' = Append(submissions, Submission(PENDING))
    /\ task' = Append(task, Task("begin"))
    /\ response' = "200"
    /\ UNCHANGED <<config, detail, courses, evaluations, matches, next_match_id, clock>>

\* upload_transcript where two transcripts are uploaded.
upload_second_transcript ==
    /\ Len(submissions) < Cardinality(TwoTranscripts)
    /\ submissions' = Append(submissions, Submission(PENDING))
    /\ task' = Append(task, Task("begin"))
    /\ response' = "200"
    /\ UNCHANGED <<config, detail, courses, evaluations, matches, next_match_id, clock>>

\* process_transcript_background up to its first commit.
process_transcript_begin(s) ==
    /\ task[s].pc = "begin"
    /\ submissions' = [submissions EXCEPT ![s].status = PROCESSING]
    /\ task' = [task EXCEPT ![s].pc = "extract"]
    /\ UNCHANGED <<config, detail, courses, evaluations, matches, next_match_id,
                   clock, response>>

\* The except clause storing the message without the status.
TranscriptFailedMessageOnly(s, e) ==
    [submissions EXCEPT ![s].processing_error = e]

\* The except clause of process_transcript_background after exception e.
TranscriptFailed(s, e) ==
    [submissions EXCEPT ![s].status = FAILED, ![s].processing_error = e]

\* Text extraction, course extraction and the materialising loop, up to the
\* commit of the courses or the commit of the except clause.
process_transcript_extract(s, text_ok, raw) ==
    /\ task[s].pc = "extract"
    /\ LET data == extract_transcript_data(credential, raw)
           m    == Materialize(s, data, 1, courses, evaluations)
       IN  IF ~text_ok
           THEN \* extract_text raised; nothing else is pending
                /\ submissions' = TranscriptFailed(s, "RuntimeError")
                /\ task' = [task EXCEPT ![s].pc = "done"]
                /\ UNCHANGED <<courses, evaluations>>
           ELSE CASE m.exc = "none" ->
                     /\ courses' = m.courses
                     /\ evaluations' = m.evaluations
                     /\ task' = [task EXCEPT ![s].pc = "run_begin"]
                     /\ UNCHANGED submissions
                  [] m.exc = "AttributeError" ->
                     \* the handler's commit also commits the rows flushed so far
                     /\ courses' = m.courses
                     /\ evaluations' = m.evaluations
                     /\ submissions' = TranscriptFailed(s, "AttributeError")
                     /\ task' = [task EXCEPT ![s].pc = "done"]
                  [] m.exc = "DataError" ->
                     \* the failed flush leaves the session inactive: the
                     \* handler's query raises and the task ends
                     /\ task' = [task EXCEPT ![s].pc = "done"]
                     /\ UNCHANGED <<submissions, courses, evaluations>>
    /\ UNCHANGED <<config, detail, matches, next_match_id, clock, response>>

\* ------------------------------------- match_courses_for_submission
\* The i-th of all the extracted courses, whatever their submission.
NthCourseOfAll(s, i) ==
    CHOOSE c \in DOMAIN courses :
        Cardinality({d \in DOMAIN courses : d < c}) = i - 1

\* The i-th of the submission's extracted courses, in the order loaded.
NthCourse(s, i) ==
    CHOOSE c \in CoursesOf(courses, s) :
        Cardinality({d \in CoursesOf(courses, s) : d < c}) = i - 1

\* The except clause of match_courses_for_submission after exception e.
RunFailed(s, e) ==
    [submissions EXCEPT ![s].status = FAILED, ![s].processing_error = e]

Finished(s, res) == [task EXCEPT ![s].pc = "done", ![s].result = res]

\* The run on a missing id returning True.
match_courses_missing_true(s) ==
    /\ s \notin DOMAIN submissions
    /\ response' = "run_true"
    /\ UNCHANGED <<config, detail, submissions, courses, evaluations, matches,
                   next_match_id, task, clock>>

\* match_courses_for_submission on an id that no Submission has: the query
\* finds nothing and the run returns False.
match_courses_missing(s) ==
    /\ s \notin DOMAIN submissions
    /\ response' = "run_false"
    /\ UNCHANGED <<config, detail, submissions, courses, evaluations, matches,
                   next_match_id, task, clock>>

\* Load the submission, set PROCESSING, commit.
match_courses_begin(s) ==
    /\ task[s].pc = "run_begin"
    /\ submissions' = [submissions EXCEPT ![s].status = PROCESSING]
    /\ task' = [task EXCEPT ![s].pc = "run_load"]
    /\ UNCHANGED <<config, detail, courses, evaluations, matches, next_match_id,
                   clock, response>>

\* match_courses_load with the branch of the empty catalog a copy of the
\* branch of the missing courses.
match_courses_load_failing(s) ==
    /\ task[s].pc = "run_load"
    /\ IF CoursesOf(courses, s) = {}
       THEN /\ submissions' = RunFailed(s, NoCoursesError)
            /\ task' = Finished(s, "false")
       ELSE IF active = {}
       THEN /\ submissions' = RunFailed(s, "No target courses")
            /\ task' = Finished(s, "false")
       ELSE /\ task' = [task EXCEPT ![s].pc = "run_match", ![s].idx = 1,
                                     ![s].targets = active]
            /\ UNCHANGED submissions
    /\ UNCHANGED <<config, detail, courses, evaluations, matches, next_match_id,
                   clock, response>>

\* match_courses_load with the two emptiness tests merged into the branch
\* that marks the submission ready for review.
match_courses_load_merged(s) ==
    /\ task[s].pc = "run_load"
    /\ IF CoursesOf(courses, s) = {} \/ active = {}
       THEN /\ submissions' = [submissions EXCEPT ![s].status = READY_FOR_REVIEW]
            /\ task' = Finished(s, "true")
       ELSE /\ task' = [task EXCEPT ![s].pc = "run_match", ![s].idx = 1,
                                     ![s].targets = active]
            /\ UNCHANGED submissions
    /\ UNCHANGED <<config, detail, courses, evaluations, matches, next_match_id,
                   clock, response>>

\* Load the extracted courses and the active catalog.
match_courses_load(s) ==
    /\ task[s].pc = "run_load"
    /\ IF CoursesOf(courses, s) = {}
       THEN /\ submissions' = RunFailed(s, NoCoursesError)
            /\ task' = Finished(s, "false")
       ELSE IF active = {}
       THEN /\ submissions' = [submissions EXCEPT ![s].status = READY_FOR_REVIEW]
            /\ task' = Finished(s, "true")
       ELSE /\ task' = [task EXCEPT ![s].pc = "run_match", ![s].idx = 1,
                                     ![s].targets = active]
            /\ UNCHANGED submissions
    /\ UNCHANGED <<config, detail, courses, evaluations, matches, next_match_id,
                   clock, response>>

\* How a turn of the loop ends, r the session of _match_single_course before
\* its commit: the commit, or the except clause when it raised.
match_courses_outcome(s, ms, r) ==
    /\ next_match_id + Len(ms) - 1 <= MaxMatchId
    /\ CASE r.exc = "none" /\ FlushOK(r.rows) ->
            /\ matches' = r.matches
            /\ next_match_id' = next_match_id + Len(ms)
            /\ task' = IF task[s].idx = Cardinality(CoursesOf(courses, s))
                       THEN [task EXCEPT ![s].pc = "run_finish"]
                       ELSE [task EXCEPT ![s].idx = @ + 1]
            /\ UNCHANGED submissions
         [] r.exc = "none" /\ ~FlushOK(r.rows) ->
            \* the commit raised and rolled back; the handler commits
            /\ submissions' = RunFailed(s, "IntegrityError")
            /\ task' = Finished(s, "false")
            /\ UNCHANGED <<matches, next_match_id>>
         [] r.exc = "AttributeError" /\ FlushOK(r.rows) ->
            \* the handler's commit carries the delete and the rows
            \* added before the exception
            /\ matches' = r.matches
            /\ next_match_id' = next_match_id + Cardinality(r.rows)
            /\ submissions' = RunFailed(s, "AttributeError")
            /\ task' = Finished(s, "false")
         [] r.exc = "AttributeError" /\ ~FlushOK(r.rows) ->
            \* the handler's commit raised and rolled back; the
            \* exception leaves the run and the except clause of
            \* process_transcript_background commits
            /\ submissions' = TranscriptFailed(s, "IntegrityError")
            /\ task' = Finished(s, "raised")
            /\ UNCHANGED <<matches, next_match_id>>

\* One turn of the loop over the extracted courses: _match_single_course and
\* its commit, or the except clause when it raised.
match_courses_step(s, raw) ==
    /\ task[s].pc = "run_match"
    /\ LET c  == NthCourse(s, task[s].idx)
           ms == find_similar_courses(credential, task[s].targets, raw, TopN)
           r  == match_single_course(c, ms, matches, next_match_id)
       IN  match_courses_outcome(s, ms, r)
    /\ UNCHANGED <<config, detail, courses, evaluations, clock, response>>

\* After the loop: set READY_FOR_REVIEW, commit, return True.
match_courses_finish(s) ==
    /\ task[s].pc = "run_finish"
    /\ submissions' = [submissions EXCEPT ![s].status = READY_FOR_REVIEW]
    /\ task' = Finished(s, "true")
    /\ UNCHANGED <<config, detail, courses, evaluations, matches, next_match_id,
                   clock, response>>

\* rematch_course putting the Evaluation of the course back to pending.
rematch_course_resetting(c, raw) ==
    /\ LET ms == find_similar_courses(credential, active, raw, TopN)
           r  == match_single_course(c, ms, matches, next_match_id)
       IN  IF c \notin DOMAIN courses
           THEN /\ response' = "false"
                /\ UNCHANGED <<matches, next_match_id, evaluations>>
           ELSE /\ next_match_id + Len(ms) - 1 <= MaxMatchId
                /\ IF r.exc = "none" /\ FlushOK(r.rows)
                   THEN /\ matches' = r.matches
                        /\ next_match_id' = next_match_id + Len(ms)
                        /\ evaluations' =
                             [e \in DOMAIN evaluations |->
                                 IF e \in EvaluationsOf(evaluations, c)
                                 THEN PendingEvaluation(c)
                                 ELSE evaluations[e]]
                        /\ response' = "true"
                   ELSE /\ response' = "raised"
                        /\ UNCHANGED <<matches, next_match_id, evaluations>>
    /\ UNCHANGED <<config, detail, submissions, courses, task, clock>>

\* rematch_course as process_syllabus_background calls it: an exception
\* leaves the task, whose session is closed without a commit.
rematch_course(c, raw) ==
    /\ LET ms == find_similar_courses(credential, active, raw, TopN)
           r  == match_single_course(c, ms, matches, next_match_id)
       IN  IF c \notin DOMAIN courses
           THEN /\ response' = "false"
                /\ UNCHANGED <<matches, next_match_id>>
           ELSE /\ next_match_id + Len(ms) - 1 <= MaxMatchId
                /\ IF r.exc = "none" /\ FlushOK(r.rows)
                   THEN /\ matches' = r.matches
                        /\ next_match_id' = next_match_id + Len(ms)
                        /\ response' = "true"
                   ELSE /\ response' = "raised"
                        /\ UNCHANGED <<matches, next_match_id>>
    /\ UNCHANGED <<config, detail, submissions, courses, evaluations, task, clock>>

\* ------------------------------- _match_single_course, statement by statement
\* The session after the delete and the adds, when the delete ran on the
\* rows seen and the commit comes later: the rows that other sessions have
\* committed in between stay.
match_single_course_later(c, ms, all, seen, first_id) ==
    LET b == BuildRows(c, ms, 1, first_id, {})
    IN  [matches |-> (all \ seen) \cup b.rows,
         rows    |-> b.rows,
         exc     |-> b.exc]

\* The ids that the rows pending in the sessions will take.
PendingIds == Len(session["run"].ms) + Len(session["rematch"].ms)

\* A turn of the run's loop up to the delete: the ranking result, and the
\* delete of the rows the course has.
match_courses_delete(s, raw) ==
    /\ task[s].pc = "run_match"
    /\ session["run"] = NoWork
    /\ LET c  == NthCourse(s, task[s].idx)
           ms == find_similar_courses(credential, task[s].targets, raw, TopN)
       IN  /\ next_match_id + PendingIds + Len(ms) - 1 <= MaxMatchId
           /\ session' = [session EXCEPT !["run"] =
                             [course |-> c, seen |-> MatchesOf(matches, c),
                              ms |-> ms]]
    /\ UNCHANGED <<config, pdf, request, submissions, courses, evaluations,
                   matches, next_match_id, task, clock, response>>

\* The rest of the turn: the adds and the commit, or the except clause.
match_courses_commit(s) ==
    /\ task[s].pc = "run_match"
    /\ session["run"] # NoWork
    /\ LET w == session["run"]
           r == match_single_course_later(w.course, w.ms, matches, w.seen,
                                          next_match_id)
       IN  match_courses_outcome(s, w.ms, r)
    /\ session' = [session EXCEPT !["run"] = NoWork]
    /\ UNCHANGED <<config, pdf, request, courses, evaluations, clock, response>>

\* rematch_course up to the delete.
rematch_course_delete(c, raw) ==
    /\ session["rematch"] = NoWork
    /\ LET ms == find_similar_courses(credential, active, raw, TopN)
       IN  /\ next_match_id + PendingIds + Len(ms) - 1 <= MaxMatchId
           /\ session' = [session EXCEPT !["rematch"] =
                             [course |-> c, seen |-> MatchesOf(matches, c),
                              ms |-> ms]]
    /\ UNCHANGED <<config, pdf, request, submissions, courses, evaluations,
                   matches, next_match_id, task, clock, response>>

\* The rest of rematch_course: the adds and the commit.
rematch_course_commit ==
    /\ session["rematch"] # NoWork
    /\ LET w == session["rematch"]
           r == match_single_course_later(w.course, w.ms, matches, w.seen,
                                          next_match_id)
       IN  IF r.exc = "none" /\ FlushOK(r.rows)
           THEN /\ matches' = r.matches
                /\ next_match_id' = next_match_id + Len(w.ms)
                /\ response' = "true"
           ELSE /\ response' = "raised"
                /\ UNCHANGED <<matches, next_match_id>>
    /\ session' = [session EXCEPT !["rematch"] = NoWork]
    /\ UNCHANGED <<config, pdf, request, submissions, courses, evaluations,
                   task, clock>>

\* --------------------------------------------------------------- admin
\* update_target_course with is_active in the request.
update_target_course(t, is_active) ==
    /\ active' = IF is_active = 1 THEN active \cup {t} ELSE active \ {t}
    /\ response' = "200"
    /\ UNCHANGED <<credential, detail, submissions, courses, evaluations,
                   matches, next_match_id, task, clock>>

\* --------------------------------------------------------- evaluations
\* get_submission_for_review without the test of the status.
get_submission_for_review_untested(s, ev) ==
    /\ IF s \notin DOMAIN submissions
       THEN /\ response' = "404"
            /\ UNCHANGED submissions
       ELSE /\ response' = "200"
            /\ submissions' = [submissions EXCEPT ![s].status = IN_REVIEW,
                                                  ![s].reviewed_by = ev]
    /\ UNCHANGED <<config, detail, courses, evaluations, matches, next_match_id,
                   task, clock>>

\* get_submission_for_review
get_submission_for_review(s, ev) ==
    /\ IF s \notin DOMAIN submissions
       THEN /\ response' = "404"
            /\ UNCHANGED submissions
       ELSE /\ response' = "200"
            /\ submissions' =
                 IF submissions[s].status = READY_FOR_REVIEW
                 THEN [submissions EXCEPT ![s].status = IN_REVIEW,
                                          ![s].reviewed_by = ev]
                 ELSE submissions
    /\ UNCHANGED <<config, detail, courses, evaluations, matches, next_match_id,
                   task, clock>>

\* The upsert whose update branch leaves the evaluator of the row alone.
UpsertKeepsEvaluator(es, c, d, t, ev) ==
    LET row == [extracted_course_id |-> c, decision |-> d,
                approved_target_course_id |-> IF d = APPROVED THEN t ELSE NULL,
                evaluator_id |-> ev]
    IN  IF EvaluationsOf(es, c) = {}
        THEN Append(es, row)
        ELSE LET e == CHOOSE x \in EvaluationsOf(es, c) :
                          \A y \in EvaluationsOf(es, c) : x <= y
             IN  [es EXCEPT ![e] = [row EXCEPT !.evaluator_id = es[e].evaluator_id]]

\* The upsert that stores the target of the request whatever the decision.
UpsertKeepsTarget(es, c, d, t, ev) ==
    LET row == [extracted_course_id |-> c, decision |-> d,
                approved_target_course_id |-> t, evaluator_id |-> ev]
    IN  IF EvaluationsOf(es, c) = {}
        THEN Append(es, row)
        ELSE LET e == CHOOSE x \in EvaluationsOf(es, c) :
                          \A y \in EvaluationsOf(es, c) : x <= y
             IN  [es EXCEPT ![e] = row]

\* The upsert always taking its insert branch.
UpsertInsert(es, c, d, t, ev) ==
    Append(es, [extracted_course_id |-> c, decision |-> d,
                approved_target_course_id |-> IF d = APPROVED THEN t ELSE NULL,
                evaluator_id |-> ev])

\* The evaluations after the upsert of evaluate_course.
Upsert(es, c, d, t, ev) ==
    LET row == [extracted_course_id |-> c, decision |-> d,
                approved_target_course_id |-> IF d = APPROVED THEN t ELSE NULL,
                evaluator_id |-> ev]
    IN  IF EvaluationsOf(es, c) = {}
        THEN Append(es, row)
        ELSE LET e == CHOOSE x \in EvaluationsOf(es, c) :
                          \A y \in EvaluationsOf(es, c) : x <= y
             IN  [es EXCEPT ![e] = row]

\* any(...) in the place of all(...).
AnyEvaluated(es, s) ==
    \E c \in CoursesOf(courses, s) :
        \E e \in EvaluationsOf(es, c) : es[e].decision # "pending"

\* all(c.evaluation and c.evaluation.decision != PENDING
\*     for c in submission.extracted_courses)
AllEvaluated(es, s) ==
    \A c \in CoursesOf(courses, s) :
        /\ EvaluationsOf(es, c) # {}
        /\ LET e == CHOOSE x \in EvaluationsOf(es, c) :
                        \A y \in EvaluationsOf(es, c) : x <= y
           IN  es[e].decision # "pending"

\* The checks of evaluate_course without the block that validates an
\* approval.
ValidationCourseOnly(c, d, t) ==
    IF c \notin DOMAIN courses THEN "404" ELSE "200"

\* The checks of evaluate_course without the lookup of the target course.
ValidationNoLookup(c, d, t) ==
    IF c \notin DOMAIN courses THEN "404"
    ELSE IF d = APPROVED /\ t = NULL THEN "400"
    ELSE "200"

\* The checks evaluate_course makes before it touches a row: the status code
\* of the HTTPException raised, "200" when none is.
Validation(c, d, t) ==
    IF c \notin DOMAIN courses THEN "404"
    ELSE IF d = APPROVED /\ t = NULL THEN "400"
    ELSE IF d = APPROVED /\ t \notin AllTargets THEN "404"
    ELSE "200"

\* evaluate_course
evaluate_course(c, d, t, ev) ==
    /\ IF Validation(c, d, t) # "200"
       THEN /\ response' = Validation(c, d, t)
            /\ UNCHANGED <<submissions, evaluations, clock>>
       ELSE LET es == Upsert(evaluations, c, d, t, ev)
                s  == courses[c]
            IN  /\ evaluations' = es
                /\ response' = "200"
                /\ IF AllEvaluated(es, s)
                   THEN /\ clock < MaxClock
                        /\ clock' = clock + 1
                        /\ submissions' =
                             [submissions EXCEPT ![s].status = COMPLETED,
                                                 ![s].completed_at = clock + 1]
                   ELSE UNCHANGED <<submissions, clock>>
    /\ UNCHANGED <<config, detail, courses, matches, next_match_id, task>>

\* all(...) over the courses whose decision is this evaluator's.
AllEvaluatedBy(es, s, ev) ==
    \A c \in CoursesOf(courses, s) :
        \E e \in EvaluationsOf(es, c) :
            es[e].decision # "pending" /\ es[e].evaluator_id = ev

\* evaluate_course up to its first commit: the checks, the upsert and the
\* commit of the Evaluation.
evaluate_course_commit(c, d, t, ev) ==
    /\ request[ev] = NULL
    /\ IF Validation(c, d, t) # "200"
       THEN /\ response' = Validation(c, d, t)
            /\ UNCHANGED <<evaluations, request>>
       ELSE /\ evaluations' = Upsert(evaluations, c, d, t, ev)
            /\ request' = [request EXCEPT ![ev] = c]
            /\ UNCHANGED response
    /\ UNCHANGED <<config, pdf, session, submissions, courses, matches,
                   next_match_id, task, clock>>

\* The rest of evaluate_course with a test that counts only the decisions of
\* the evaluator who calls.
evaluate_course_check_own(ev) ==
    /\ request[ev] # NULL
    /\ LET s == courses[request[ev]]
       IN  IF AllEvaluatedBy(evaluations, s, ev)
           THEN /\ clock < MaxClock
                /\ clock' = clock + 1
                /\ submissions' =
                     [submissions EXCEPT ![s].status = COMPLETED,
                                         ![s].completed_at = clock + 1]
           ELSE UNCHANGED <<submissions, clock>>
    /\ response' = "200"
    /\ request' = [request EXCEPT ![ev] = NULL]
    /\ UNCHANGED <<config, pdf, session, courses, evaluations, matches,
                   next_match_id, task>>

\* The rest of evaluate_course: the courses of the submission read again,
\* the all_evaluated test, and the commit of the completion.
evaluate_course_check(ev) ==
    /\ request[ev] # NULL
    /\ LET s == courses[request[ev]]
       IN  IF AllEvaluated(evaluations, s)
           THEN /\ clock < MaxClock
                /\ clock' = clock + 1
                /\ submissions' =
                     [submissions EXCEPT ![s].status = COMPLETED,
                                         ![s].completed_at = clock + 1]
           ELSE UNCHANGED <<submissions, clock>>
    /\ response' = "200"
    /\ request' = [request EXCEPT ![ev] = NULL]
    /\ UNCHANGED <<config, pdf, session, courses, evaluations, matches,
                   next_match_id, task>>

\* update_evaluation followed by the completion test of evaluate_course.
update_evaluation_completing(e, d, t, ev) ==
    /\ IF e \notin DOMAIN evaluations
       THEN /\ response' = "404"
            /\ UNCHANGED <<evaluations, submissions, clock>>
       ELSE IF t # NULL /\ t \notin AllTargets
       THEN /\ response' = "500"
            /\ UNCHANGED <<evaluations, submissions, clock>>
       ELSE LET es == [evaluations EXCEPT
                         ![e].decision = IF d # "none" THEN d ELSE @,
                         ![e].approved_target_course_id =
                             IF t # NULL THEN t ELSE @,
                         ![e].evaluator_id = ev]
                s  == courses[evaluations[e].extracted_course_id]
            IN  /\ response' = "200"
                /\ evaluations' = es
                /\ IF AllEvaluated(es, s)
                   THEN /\ clock < MaxClock
                        /\ clock' = clock + 1
                        /\ submissions' =
                             [submissions EXCEPT ![s].status = COMPLETED,
                                                 ![s].completed_at = clock + 1]
                   ELSE UNCHANGED <<submissions, clock>>
    /\ UNCHANGED <<config, detail, courses, matches, next_match_id, task>>

\* update_evaluation: d and t are None (here "none" and NULL) when the
\* request leaves them out.
update_evaluation(e, d, t, ev) ==
    /\ IF e \notin DOMAIN evaluations
       THEN /\ response' = "404"
            /\ UNCHANGED evaluations
       ELSE IF t # NULL /\ t \notin AllTargets
       THEN \* the commit violates the foreign key and is rolled back
            /\ response' = "500"
            /\ UNCHANGED evaluations
       ELSE /\ response' = "200"
            /\ evaluations' =
                 [evaluations EXCEPT
                    ![e].decision = IF d # "none" THEN d ELSE @,
                    ![e].approved_target_course_id = IF t # NULL THEN t ELSE @,
                    ![e].evaluator_id = ev]
    /\ UNCHANGED <<config, detail, submissions, courses, matches, next_match_id,
                   task, clock>>

\* ----------------------------------------------------------------- Next
\* The uploads and the steps of their background tasks around the loop of
\* the run.
Pipeline ==
    \/ upload_transcript
    \/ \E s \in DOMAIN submissions : process_transcript_begin(s)
    \/ \E s \in DOMAIN submissions, text_ok \in BOOLEAN, raw \in ExtractResponses :
          process_transcript_extract(s, text_ok, raw)
    \/ \E s \in DOMAIN submissions : match_courses_begin(s)
    \/ \E s \in DOMAIN submissions : match_courses_load(s)
    \/ \E s \in DOMAIN submissions : match_courses_finish(s)

\* The uploads and their background tasks, ranking responses drawn from R.
Tasks(R) ==
    \/ Pipeline
    \/ \E s \in DOMAIN submissions, raw \in R : match_courses_step(s, raw)

\* The syllabus-triggered rematch of one course, and one of an id that no
\* course has (it returns before the ranking client is called, so that no
\* response is drawn for it).
Rematch(R) ==
    \/ \E c \in DOMAIN courses, raw \in R : rematch_course(c, raw)
    \/ rematch_course(Len(courses) + 1, <<"error">>)

\* The evaluator's requests: every request on the rows there are, and one
\* request of each kind on an id that no row has.
Evaluator ==
    \/ \E s \in 1..(Len(submissions) + 1), ev \in Evaluators :
          get_submission_for_review(s, ev)
    \/ \E c \in DOMAIN courses, d \in Decisions,
          t \in {NULL, UnknownTarget} \cup TargetIds, ev \in Evaluators :
          evaluate_course(c, d, t, ev)
    \/ \E d \in {APPROVED}, ev \in Evaluators :
          evaluate_course(Len(courses) + 1, d, NULL, ev)
    \/ \E e \in DOMAIN evaluations, d \in Decisions \cup {"none"},
          t \in {NULL, UnknownTarget} \cup TargetIds, ev \in Evaluators :
          update_evaluation(e, d, t, ev)
    \/ \E ev \in Evaluators :
          update_evaluation(Len(evaluations) + 1, "none", NULL, ev)

\* The lifecycle: the background tasks, one ranking response of each kind,
\* interleaved with the evaluator's requests.
Next == Tasks(BasicRankResponses) \/ Evaluator

Spec == Init /\ [][Next]_vars

\* The lifecycle beside syllabus-triggered rematches.
NextRematch == Next \/ Rematch(BasicRankResponses)

SpecRematch == Init /\ [][NextRematch]_vars

\* The requests of two evaluators who open submissions and decide courses.
Review ==
    \/ \E s \in 1..(Len(submissions) + 1), ev \in Reviewers :
          get_submission_for_review(s, ev)
    \/ \E c \in DOMAIN courses, d \in Decisions,
          t \in {NULL} \cup TargetIds, ev \in Reviewers :
          evaluate_course(c, d, t, ev)

\* The lifecycle under review by two evaluators.
NextReview == Tasks(BasicRankResponses) \/ Review

SpecReview == Init /\ [][NextReview]_vars

\* The matching: the background tasks and the rematch, every ranking response.
NextMatching ==
    \/ Tasks(RankResponses)
    \/ Rematch(RankResponses)
    \/ match_courses_missing(Len(submissions) + 1)

SpecMatching == Init /\ [][NextMatching]_vars

\* The syllabus uploads: every ranking response to the rematch, beside
\* background tasks whose own ranking stores no row.
NextSyllabus == Tasks(BasicRankResponses) \/ Rematch(RankResponses)

SpecSyllabus == Init /\ [][NextSyllabus]_vars

\* The decide calls of two evaluators, commit by commit, on submissions
\* whose background task is over; every call records a decision.
Deciding ==
    \/ \E c \in DOMAIN courses, d \in Decisions \ {"pending"},
          t \in TargetIds, ev \in Reviewers :
          /\ task[courses[c]].pc = "done"
          /\ evaluate_course_commit(c, d, t, ev)
    \/ \E ev \in Reviewers : evaluate_course_check(ev)

NextDeciding == Tasks(BasicRankResponses) \/ Deciding

SpecDeciding == Init /\ [][NextDeciding]_vars

\* The background tasks, the ranking responses carrying scores.
NextScores == Tasks(ScoredResponses)

SpecScores == Init /\ [][NextScores]_vars

\* The matching when the responses name any row of the TargetCourse table.
NextTargets == Tasks(CatalogResponses) \/ Rematch(CatalogResponses)

SpecTargets == Init /\ [][NextTargets]_vars

\* Two submissions side by side: their background tasks, rematches and
\* decide calls on their courses.  An extraction gives one course (the two
\* of the mock list without a credential) or fails; a decide call denies.
NextShared ==
    \/ upload_second_transcript
    \/ \E s \in DOMAIN submissions : process_transcript_begin(s)
    \/ \E s \in DOMAIN submissions, text_ok \in BOOLEAN,
          raw \in {<<"error">>, <<"list", <<"ok">>>>} :
          process_transcript_extract(s, text_ok, raw)
    \/ \E s \in DOMAIN submissions : match_courses_begin(s)
    \/ \E s \in DOMAIN submissions : match_courses_load(s)
    \/ \E s \in DOMAIN submissions, raw \in StoringRankResponses :
          match_courses_step(s, raw)
    \/ \E s \in DOMAIN submissions : match_courses_finish(s)
    \/ \E c \in DOMAIN courses, raw \in StoringRankResponses :
          rematch_course(c, raw)
    \/ \E c \in DOMAIN courses, ev \in Evaluators :
          evaluate_course(c, "denied", NULL, ev)

SpecShared == Init /\ [][NextShared]_vars

\* The matching while an administrator switches target courses on and off.
NextCatalog ==
    \/ Tasks(RankResponses)
    \/ Rematch(RankResponses)
    \/ \E t \in TargetIds, is_active \in {0, 1} :
          update_target_course(t, is_active)

SpecCatalog == Init /\ [][NextCatalog]_vars

\* The run beside a rematch, each statement by statement on a session of its
\* own.
NextRace ==
    \/ Pipeline
    \/ \E s \in DOMAIN submissions, raw \in RankResponses :
          match_courses_delete(s, raw)
    \/ \E s \in DOMAIN submissions : match_courses_commit(s)
    \/ \E c \in DOMAIN courses, raw \in RankResponses :
          rematch_course_delete(c, raw)
    \/ rematch_course_commit

SpecRace == Init /\ [][NextRace]_vars

\* The background tasks alone, every ranking response; a task that can take
\* a step takes one.
NextBackground == Tasks(RankResponses)

SpecBackground ==
    Init /\ [][NextBackground]_vars /\ WF_vars(NextBackground)

\* ------------------------------------------------ the text extractor
\* Any document behind the path, the tables empty.
InitText ==
    /\ credential = FALSE
    /\ active = {}
    /\ submissions = <<>>
    /\ courses = <<>>
    /\ evaluations = <<>>
    /\ matches = {}
    /\ next_match_id = 1
    /\ task = <<>>
    /\ clock = 0
    /\ response = "none"
    /\ pdf \in [file : Files, result : {NotCalled}]
    /\ session = [w \in Matchers |-> NoWork]
    /\ request = [ev \in Reviewers |-> NULL]

\* await pdf_parser.extract_text(file_path)
extract_text_call ==
    /\ pdf.result = NotCalled
    /\ pdf' = [pdf EXCEPT !.result = extract_text(pdf.file)]
    /\ UNCHANGED <<config, submissions, courses, evaluations, matches,
                   next_match_id, task, clock, response, session, request>>

NextText == extract_text_call

SpecText == InitText /\ [][NextText]_vars

\* ================================================================ claims
\* The position of a status in the chain of the lifecycle; 0 for failed.
StatusRank(st) ==
    CASE st = PENDING          -> 1
      [] st = PROCESSING       -> 2
      [] st = READY_FOR_REVIEW -> 3
      [] st = IN_REVIEW        -> 4
      [] st = COMPLETED        -> 5
      [] OTHER                 -> 0

\* A change from a to b moves forward along the chain, or from processing
\* to failed.
Forward(a, b) ==
    \/ a = PROCESSING /\ b = FAILED
    \/ a # FAILED /\ b # FAILED /\ StatusRank(a) < StatusRank(b)

\* The evaluation of course c is still pending.
Pending(c) ==
    \A e \in EvaluationsOf(evaluations, c) : evaluations[e].decision = "pending"

\* C1: every change of a submission's status moves forward along pending ->
\* processing -> ready_for_review -> in_review -> completed, or from
\* processing to failed; the status never moves backward.
C1_StatusMovesForward ==
    [][\A s \in DOMAIN submissions :
          submissions'[s].status # submissions[s].status
              => Forward(submissions[s].status, submissions'[s].status)]_vars

\* The step is a decide call on course c that records a decision: the
\* request passes validation and its decision is not pending.
Decided(c) ==
    /\ response' = "200"
    /\ \E d \in Decisions \ {"pending"},
          t \in {NULL, UnknownTarget} \cup TargetIds, ev \in Evaluators :
          evaluate_course(c, d, t, ev)

\* C2: a decide call that records a decision (the request passes validation
\* and its decision is not pending) on the last course of a submission
\* whose evaluation is still pending sets the status to completed and a
\* non-null completion timestamp; made while another course of the
\* submission is still pending, it leaves the status unchanged.  (Stated
\* by contraposition: a step that changes the status while another course is
\* pending, or that leaves the last pending course's submission short of
\* completed, is no such decide call.)
C2_LastDecisionCompletes ==
    [][\A c \in DOMAIN courses :
          LET s == courses[c]
              others == CoursesOf(courses, s) \ {c}
          IN  /\ (/\ \E o \in others : Pending(o)
                  /\ submissions'[s].status # submissions[s].status)
                    => ~Decided(c)
              /\ (/\ Pending(c) /\ \A o \in others : ~Pending(o)
                  /\ ~(/\ submissions'[s].status = COMPLETED
                       /\ submissions'[s].completed_at # NULL))
                    => ~Decided(c)]_vars

\* C2 witness: a submission of two courses completed by the decision on the
\* second of them.
C2_Witness ==
    \E s \in DOMAIN submissions :
        /\ Cardinality(CoursesOf(courses, s)) >= 2
        /\ \A c \in CoursesOf(courses, s) : ~Pending(c)
        /\ submissions[s].status = COMPLETED
        /\ submissions[s].completed_at # NULL
        /\ response = "200"

\* C3: once the extraction of a submission is committed, and after any later
\* decide, update-decision, run and rematch, each ExtractedCourse has exactly
\* one Evaluation row.
C3_OneEvaluationPerCourse ==
    \A c \in DOMAIN courses : Cardinality(EvaluationsOf(evaluations, c)) = 1

\* C3 witness: two extracted courses, the run over, one course decided twice
\* (decided, then its decision updated).
C3_Witness ==
    /\ Len(courses) >= 2
    /\ \A s \in DOMAIN task : task[s].pc = "done"
    /\ \E e \in DOMAIN evaluations :
          /\ evaluations[e].decision = "denied"
          /\ evaluations[e].approved_target_course_id # NULL

\* C4: the match_rank values of the CourseMatch rows of a course are exactly
\* 1..k, k the number of the rows, and k <= top_n.
C4_RanksContiguous ==
    \A c \in DOMAIN courses :
        LET M == MatchesOf(matches, c)
        IN  /\ {m.match_rank : m \in M} = 1..Cardinality(M)
            /\ Cardinality(M) <= TopN

\* C4 witness: a course ranked with top_n rows.
C4_Witness ==
    \E c \in DOMAIN courses : Cardinality(MatchesOf(matches, c)) = TopN

\* Every entry of a ranking result is a dictionary that names a TargetCourse.
WellFormed(ms) ==
    \A k \in 1..Len(ms) : ms[k].dict /\ ms[k].target_course_id \in TargetIds

\* C5: a rematch of an existing course fully replaces its matches: no
\* CourseMatch id the course had before is present after it, and the rows of
\* the course afterwards are exactly those built from the ranking result of
\* this rematch.
C5_RematchReplaces ==
    [][\A c \in DOMAIN courses, raw \in RankResponses :
          rematch_course(c, raw)
              => LET ms == find_similar_courses(credential, active, raw, TopN)
                 IN  /\ {m.id : m \in MatchesOf(matches', c)}
                           \cap {m.id : m \in MatchesOf(matches, c)} = {}
                     /\ WellFormed(ms)
                           => /\ Cardinality(MatchesOf(matches', c)) = Len(ms)
                              /\ \A k \in 1..Len(ms) :
                                    \E m \in MatchesOf(matches', c) :
                                        /\ m.match_rank = k
                                        /\ m.target_course_id
                                              = ms[k].target_course_id]_vars

\* C6: a decide call with decision approved and no approved_target_course_id
\* fails (with the validation error when the course exists) and leaves the
\* state as it was: no Evaluation row created or altered, no status changed.
C6_ApprovalNeedsTarget ==
    [][\A c \in 1..(Len(courses) + 1), ev \in Evaluators :
          evaluate_course(c, APPROVED, NULL, ev)
              => /\ response' = IF c \in DOMAIN courses THEN "400" ELSE "404"
                 /\ evaluations' = evaluations
                 /\ submissions' = submissions
                 /\ UNCHANGED <<courses, matches, clock>>]_vars

\* C6 witness: the validation error answered, with a course yet to decide.
C6_Witness ==
    /\ response = "400"
    /\ \E c \in DOMAIN courses : Pending(c)

C8_FailedIsTerminal ==
    [][\A s \in DOMAIN submissions :
          submissions[s].status = FAILED => submissions'[s].status = FAILED]_vars

\* C9: an orchestrator run that does not reach its end returns false, leaves
\* the status failed and the exception message stored, and keeps the matches
\* committed for the courses before the one that failed.
C9_RunFailureContained ==
    [][\A s \in DOMAIN submissions :
          (task[s].pc = "run_match" /\ task'[s].pc = "done")
              => /\ task'[s].result = "false"
                 /\ submissions'[s].status = FAILED
                 /\ submissions'[s].processing_error \notin {NoText, ""}
                 /\ \A i \in 1..(task[s].idx - 1) :
                       MatchesOf(matches', NthCourse(s, i))
                           = MatchesOf(matches, NthCourse(s, i))]_vars

\* C10: an orchestrator run on a submission without extracted courses
\* returns false, sets the status failed with a non-empty error message and
\* creates no CourseMatch row.
C10_NoCoursesFails ==
    [][\A s \in DOMAIN submissions :
          (task[s].pc = "run_load" /\ task'[s] # task[s]
                /\ CoursesOf(courses, s) = {})
              => /\ task'[s].pc = "done"
                 /\ task'[s].result = "false"
                 /\ submissions'[s].status = FAILED
                 /\ submissions'[s].processing_error \notin {NoText, ""}
                 /\ matches' = matches]_vars

\* C10 witness: the run over a submission without courses has returned.
C10_Witness ==
    \E s \in DOMAIN submissions :
        /\ CoursesOf(courses, s) = {}
        /\ task[s].pc = "done"
        /\ task[s].result = "false"
        /\ submissions[s].processing_error = NoCoursesError


C12_MissingSubmission ==
    [][\A s \in 1..(Len(submissions) + 1) :
          match_courses_missing(s)
              => /\ response' = "run_false"
                 /\ submissions' = submissions
                 /\ courses' = courses
                 /\ matches' = matches
                 /\ evaluations' = evaluations]_vars

\* C12 witness: the run on a missing id has returned beside rows of every
\* table.
C12_Witness ==
    /\ response = "run_false"
    /\ submissions # <<>> /\ courses # <<>> /\ matches # {}


\* C13: over any sequence of decide calls the transition to completed fires
\* once: a completion timestamp, once stamped, is not stamped again by a
\* later decision on an already decided course.
C13_CompletionFiresOnce ==
    [][\A s \in DOMAIN submissions :
          submissions[s].completed_at # NULL
              => submissions'[s].completed_at = submissions[s].completed_at]_vars

\* C14: decide is an upsert whose latest call prevails: whatever rows the
\* earlier calls left, after a successful decide call the course's single
\* Evaluation row holds the decision and the evaluator of that call, and the
\* same call applied again leaves the same decision, evaluator and approved
\* target.
C14_LatestDecisionPrevails ==
    \A c \in DOMAIN courses, d \in Decisions,
       t \in {NULL} \cup TargetIds, ev \in Reviewers :
        Validation(c, d, t) = "200"
            => LET es == Upsert(evaluations, c, d, t, ev)
               IN  /\ \E e \in DOMAIN es :
                         /\ EvaluationsOf(es, c) = {e}
                         /\ es[e].decision = d
                         /\ es[e].evaluator_id = ev
                   /\ Upsert(es, c, d, t, ev) = es

\* C14 witness: two courses whose rows hold decisions of different
\* evaluators.
C14_Witness ==
    /\ response = "200"
    /\ \E e1, e2 \in DOMAIN evaluations :
          /\ evaluations[e1].evaluator_id = 1
          /\ evaluations[e1].decision = "denied"
          /\ evaluations[e2].evaluator_id = 2
          /\ evaluations[e2].decision = APPROVED

\* C15: after a successful decide call whose decision is not approved the
\* course's Evaluation has a null approved target, whatever the call
\* carried and whatever the row held before; after a successful decide call
\* with decision approved it has the target of the call.
C15_TargetFollowsDecision ==
    \A c \in DOMAIN courses, d \in Decisions,
       t \in {NULL, UnknownTarget} \cup TargetIds, ev \in Evaluators :
        Validation(c, d, t) = "200"
            => LET es == Upsert(evaluations, c, d, t, ev)
               IN  \A e \in EvaluationsOf(es, c) :
                       es[e].approved_target_course_id
                           = IF d = APPROVED THEN t ELSE NULL

\* C15 witness: a course decided denied, its target null, beside a course
\* whose denied row holds a target that an update left there.
C15_Witness ==
    /\ response = "200"
    /\ \E e1, e2 \in DOMAIN evaluations :
          /\ evaluations[e1].decision = "denied"
          /\ evaluations[e1].evaluator_id # NULL
          /\ evaluations[e1].approved_target_course_id = NULL
          /\ evaluations[e2].decision = "denied"
          /\ evaluations[e2].approved_target_course_id \in TargetIds


C17_RankingFailureLocal ==
    \A s \in DOMAIN submissions :
        (/\ CoursesOf(courses, s) # {}
         /\ task[s].pc = "done" /\ task[s].result # "none")
            => /\ task[s].result = "true"
               /\ submissions[s].status = READY_FOR_REVIEW

\* The step leaves every submission as it is and the CourseMatch rows of
\* every course but c; for a c that is no course it returns false and
\* leaves every row of every table.
RematchFrame(c) ==
    /\ submissions' = submissions
    /\ \A o \in DOMAIN courses \ {c} :
          MatchesOf(matches', o) = MatchesOf(matches, o)
    /\ c \notin DOMAIN courses
          => /\ response' = "false"
             /\ UNCHANGED <<courses, evaluations, matches, next_match_id>>

\* C18: a rematch of one extracted course leaves unchanged the status, the
\* error message and the completion timestamp of the parent submission and
\* the CourseMatch rows of every other course; a rematch of a course id that
\* does not exist returns false and changes nothing.  (By contraposition: a
\* step that breaks this frame for c is no rematch of c; the steps of the
\* background tasks, which a rematch never is, are told apart first.)
C18_RematchFrame ==
    [][/\ \A c \in DOMAIN courses :
             (task' = task /\ ~RematchFrame(c))
                 => ~\E raw \in RankResponses : rematch_course(c, raw)
       /\ rematch_course(Len(courses) + 1, <<"error">>)
             => RematchFrame(Len(courses) + 1)]_vars

\* C18 witness: a rematch has returned true with rows of two courses stored.
C18_Witness ==
    /\ response = "true"
    /\ \E c1, c2 \in DOMAIN courses :
          /\ c1 # c2
          /\ MatchesOf(matches, c1) # {}
          /\ MatchesOf(matches, c2) # {}

\* C19: materialising the extracted list is all-or-nothing: the step that
\* commits courses of an invocation commits none of the list or all of it.
C19_MaterializeAllOrNothing ==
    [][\A s \in DOMAIN submissions :
          (task[s].pc = "extract" /\ task'[s].pc # "extract")
              => \/ courses' = courses
                 \/ task'[s].pc = "run_begin"]_vars

\* C20: when the text extraction yields no text the submission ends failed
\* with a non-empty error message, without any ExtractedCourse, Evaluation
\* or CourseMatch row, and never becomes ready_for_review.
C20_NoTextFails ==
    \A s \in DOMAIN submissions :
        submissions[s].processing_error = "RuntimeError"
            => /\ submissions[s].status = FAILED
               /\ task[s].pc = "done" /\ task[s].result = "none"
               /\ CoursesOf(courses, s) = {}
               /\ \A e \in DOMAIN evaluations :
                     evaluations[e].extracted_course_id \notin CoursesOf(courses, s)
               /\ \A m \in matches :
                     m.extracted_course_id \notin CoursesOf(courses, s)

\* C20 witness: a submission whose text extraction failed, opened by an
\* evaluator afterwards.
C20_Witness ==
    \E s \in DOMAIN submissions :
        /\ submissions[s].processing_error = "RuntimeError"
        /\ submissions[s].status = FAILED
        /\ response = "200"


\* The reading has text that is not white space.
Yields(reading) ==
    /\ ~reading.raises
    /\ \E k \in 1..Len(reading.pages) :
          \E i \in 1..Len(reading.pages[k]) :
              reading.pages[k][i] \notin Whitespace

\* C21: extract_text fails with FileNotFoundError, no strategy tried, when
\* the path has no file; otherwise it returns the text of the primary
\* strategy when that has text which is not white space, else the text of the
\* secondary strategy when that has, else it fails; the text it returns is
\* never empty or white space only, and the secondary strategy is tried only
\* after the primary has failed.
C21_ExtractText ==
    pdf.result # NotCalled
        => LET f == pdf.file
               r == pdf.result
           IN  /\ IF ~f.exists
                  THEN r.exc = "FileNotFoundError" /\ r.tried = <<>>
                  ELSE IF Yields(f.pdfplumber)
                  THEN /\ r.exc = "none"
                       /\ r.text = FullText(f.pdfplumber)
                       /\ r.tried = <<"pdfplumber">>
                  ELSE IF Yields(f.pypdf2)
                  THEN /\ r.exc = "none"
                       /\ r.text = FullText(f.pypdf2)
                       /\ r.tried = <<"pdfplumber", "pypdf2">>
                  ELSE r.exc \notin {"none", "FileNotFoundError"}
               /\ r.exc = "none"
                     => \E i \in 1..Len(r.text) : r.text[i] \notin Whitespace

\* C21 witness: the primary strategy read pages of white space only and the
\* text of the secondary strategy was returned.
C21_Witness ==
    /\ pdf.result.exc = "none"
    /\ pdf.result.tried = <<"pdfplumber", "pypdf2">>
    /\ ~pdf.file.pdfplumber.raises
    /\ Len(pdf.file.pdfplumber.pages) = MaxPages
    /\ Len(pdf.result.text) > 1


\* C22: without a credential, find_similar_courses called with a non-empty
\* catalog returns synthetic candidates: a list that is not empty, of at
\* most top_n entries, each a dictionary that references a course of the
\* catalog given.
C22_SyntheticCandidates ==
    \A raw \in RankResponses :
        (~credential /\ active # {})
            => LET ms == find_similar_courses(credential, active, raw, TopN)
               IN  /\ ms # <<>>
                   /\ Len(ms) <= TopN
                   /\ \A k \in 1..Len(ms) :
                         ms[k].dict /\ ms[k].target_course_id \in active


\* C23: the background processing of every uploaded submission terminates
\* and leaves the submission ready_for_review or failed: no submission stays
\* pending or processing forever.
C23_ProcessingTerminates ==
    \A s \in Transcripts :
        [](s \in DOMAIN submissions
              => <>(/\ s \in DOMAIN submissions
                    /\ submissions[s].status \in {READY_FOR_REVIEW, FAILED}))


\* C24: in every interleaving of a run with a rematch of one of its
\* courses, once both have committed the CourseMatch rows of every course
\* have the ranks 1..k without a duplicate.
C24_RaceKeepsRanks ==
    (\A w \in Matchers : session[w] = NoWork)
        => \A c \in DOMAIN courses :
               LET M == MatchesOf(matches, c)
               IN  {m.match_rank : m \in M} = 1..Cardinality(M)


\* C25: a run that returns true leaves no CourseMatch row of an earlier run
\* or rematch: the turn for a course that commits keeps none of the ids the
\* course had, and the run that returns true on finding the active catalog
\* empty leaves no row for any course of the submission.
C25_RunLeavesNoStaleMatch ==
    [][\A s \in DOMAIN submissions :
          /\ (/\ task[s].pc = "run_match"
              /\ task'[s].pc \in {"run_match", "run_finish"}
              /\ task'[s] # task[s])
                => LET c == NthCourse(s, task[s].idx)
                   IN  {m.id : m \in MatchesOf(matches', c)}
                          \cap {m.id : m \in MatchesOf(matches, c)} = {}
          /\ (/\ task[s].pc = "run_load"
              /\ task'[s].pc = "done" /\ task'[s].result = "true")
                => \A c \in CoursesOf(courses, s) :
                       MatchesOf(matches', c) = {}]_vars


\* C26: in every reachable state an Evaluation has an approved target course
\* if and only if its decision is approved, and that target is an existing
\* TargetCourse.
C26_TargetIffApproved ==
    \A e \in DOMAIN evaluations :
        /\ evaluations[e].approved_target_course_id # NULL
              <=> evaluations[e].decision = APPROVED
        /\ evaluations[e].approved_target_course_id # NULL
              => evaluations[e].approved_target_course_id \in TargetIds

\* C27: in every reachable state a submission whose status is completed has
\* no extracted course whose Evaluation is pending.
C27_CompletedHasNoPending ==
    \A s \in DOMAIN submissions :
        submissions[s].status = COMPLETED
            => \A c \in CoursesOf(courses, s) : ~Pending(c)


\* C28: when two evaluators decide the last pending courses of a submission
\* at the same time, the completion is not lost in any interleaving: once no
\* decide call is open and every course of the submission is decided, the
\* status is completed and the completion timestamp is set.
C28_CompletionNotLost ==
    \A s \in DOMAIN submissions :
        (/\ \A ev \in Reviewers : request[ev] = NULL
         /\ task[s].pc = "done"
         /\ CoursesOf(courses, s) # {}
         /\ \A c \in CoursesOf(courses, s) : ~Pending(c))
            => /\ submissions[s].status = COMPLETED
               /\ submissions[s].completed_at # NULL

\* C28 witness: both evaluators have committed the decision on one of the two
\* courses each, and neither has read the courses again yet.
C28_Witness ==
    /\ request[1] # NULL /\ request[2] # NULL /\ request[1] # request[2]
    /\ \A c \in DOMAIN courses : ~Pending(c)
    /\ \A s \in DOMAIN submissions : submissions[s].status # COMPLETED


\* C29: a decide call on an extracted course id that does not exist, and a
\* decide call with decision approved whose approved_target_course_id is the
\* id of no TargetCourse, fail with an error and leave every Evaluation row
\* and every submission as they were.
C29_InvalidDecideChangesNothing ==
    [][\A ev \in Evaluators :
          /\ \A d \in Decisions, t \in {NULL, UnknownTarget} \cup TargetIds :
                evaluate_course(Len(courses) + 1, d, t, ev)
                    => /\ response' = "404"
                       /\ evaluations' = evaluations
                       /\ submissions' = submissions
          /\ \A c \in DOMAIN courses :
                evaluate_course(c, APPROVED, UnknownTarget, ev)
                    => /\ response' = "404"
                       /\ evaluations' = evaluations
                       /\ submissions' = submissions]_vars

\* C29 witness: a decide call was refused as not found while one course of
\* the submission is decided and another is still pending.
C29_Witness ==
    /\ response = "404"
    /\ \E c1, c2 \in DOMAIN courses : Pending(c1) /\ ~Pending(c2)


\* C30: the persisted matches of every extracted course are ordered by
\* descending similarity (the score of the row of rank r is at least the
\* score of the row of rank r + 1), and every persisted score is within
\* 0..100.
C30_ScoresDescend ==
    \A c \in DOMAIN courses :
        /\ \A m1, m2 \in MatchesOf(matches, c) :
              m2.match_rank = m1.match_rank + 1
                  => m1.similarity_score >= m2.similarity_score
        /\ \A m \in MatchesOf(matches, c) : m.similarity_score \in 0..100


\* C31: every CourseMatch row persisted by a run or a rematch references a
\* TargetCourse of the active catalog which that invocation loaded: the rows
\* a step stores name targets of the catalog the run loaded when the step is
\* a turn of the run, and of the active catalog when it is a rematch.
C31_MatchesNameActiveTargets ==
    [][\A m \in matches' \ matches :
          IF task' = task
          THEN m.target_course_id \in active
          ELSE \E s \in DOMAIN task :
                  /\ task'[s] # task[s]
                  /\ m.target_course_id \in task[s].targets]_vars


\* C32: in every reachable state a submission has a stored processing error
\* message only if its status is failed, and every submission whose status
\* is failed has a stored error message.
C32_ErrorIffFailed ==
    \A s \in DOMAIN submissions :
        submissions[s].processing_error # NoText
            <=> submissions[s].status = FAILED


\* The submission has been ready_for_review: the status is assigned
\* ready_for_review by the run alone, in the commit with which it returns
\* True, and the value the run returned stays with the task.
HasBeenReady(s) == task[s].result = "true"

\* C33: a submission reaches completed only after it has been in
\* ready_for_review: a decision taken while the submission is pending,
\* processing or failed does not complete it.
C33_CompletedAfterReady ==
    \A s \in DOMAIN submissions :
        submissions[s].status = COMPLETED => HasBeenReady(s)


\* The step leaves every submission but s as it was: its row, its extracted
\* courses, and the matches and the evaluations of these courses.
OthersUntouched(s) ==
    \A o \in DOMAIN submissions \ {s} :
        /\ submissions'[o] = submissions[o]
        /\ CoursesOf(courses', o) = CoursesOf(courses, o)
        /\ \A c \in CoursesOf(courses, o) :
              /\ MatchesOf(matches', c) = MatchesOf(matches, c)
              /\ EvaluationsOf(evaluations', c) = EvaluationsOf(evaluations, c)
              /\ \A e \in EvaluationsOf(evaluations, c) :
                    evaluations'[e] = evaluations[e]

\* C34: the background work for one submission (processing, run, rematch)
\* and the decide calls on its courses never change the status, the error
\* message, the extracted courses, the matches or the evaluations of another
\* submission, and never touch the catalog, in any interleaving of the tasks
\* of two submissions.  (For the rematch and the decide call by
\* contraposition: a step that touches a submission other than the one of
\* course c is no rematch of c and no decide call on c.)
C34_SubmissionsIndependent ==
    [][/\ \A s \in DOMAIN task : task'[s] # task[s] => OthersUntouched(s)
       /\ \A c \in DOMAIN courses :
             (task' = task /\ ~OthersUntouched(courses[c]))
                 => /\ ~\E raw \in StoringRankResponses : rematch_course(c, raw)
                    /\ ~\E ev \in Evaluators :
                           evaluate_course(c, "denied", NULL, ev)
       /\ active' = active]_vars

\* C34 witness: two submissions with a stored match each, the first completed
\* by its decisions, the second ready for review, after a rematch.
C34_Witness ==
    /\ Len(submissions) = Cardinality(TwoTranscripts)
    /\ submissions[1].status = COMPLETED
    /\ submissions[2].status = READY_FOR_REVIEW
    /\ \A s \in DOMAIN submissions :
          \E c \in CoursesOf(courses, s) : MatchesOf(matches, c) # {}
    /\ response = "true"


\* C35: extract_transcript_data never raises to its caller: when the model
\* call fails or its response cannot be parsed it returns an empty list (the
\* task commits no course and goes on to the run), and the submission then
\* ends failed with the zero-courses error message, the run having returned
\* False, and not with an exception leaving the background task.
C35_ExtractionFailureFails ==
    /\ [][\A s \in DOMAIN submissions :
             (credential /\ process_transcript_extract(s, TRUE, <<"error">>))
                 => /\ extract_transcript_data(credential, <<"error">>) = <<>>
                    /\ task'[s].pc = "run_begin"
                    /\ CoursesOf(courses', s) = {}
                    /\ submissions' = submissions]_vars
    /\ \A s \in Transcripts :
          (/\ s \in DOMAIN submissions
           /\ task[s].pc = "run_begin"
           /\ CoursesOf(courses, s) = {})
              ~> (/\ s \in DOMAIN submissions
                  /\ submissions[s].status = FAILED
                  /\ submissions[s].processing_error = NoCoursesError
                  /\ task[s].pc = "done"
                  /\ task[s].result = "false")

\* C35 witness: with a credential, a submission without courses ended failed
\* with the zero-courses message.
C35_Witness ==
    /\ credential
    /\ \E s \in DOMAIN submissions :
          /\ CoursesOf(courses, s) = {}
          /\ submissions[s].status = FAILED
          /\ submissions[s].processing_error = NoCoursesError
          /\ task[s].result = "false"


\* C36: in every reachable state the completion timestamp of a submission
\* is non-null if and only if its status is completed.
C36_StampIffCompleted ==
    \A s \in DOMAIN submissions :
        submissions[s].completed_at # NULL
            <=> submissions[s].status = COMPLETED


\* The step changes at most the Evaluation row e: every submission, every
\* other Evaluation, every course and every match is as it was.
OnlyEvaluation(e) ==
    /\ submissions' = submissions
    /\ DOMAIN evaluations' = DOMAIN evaluations
    /\ \A x \in DOMAIN evaluations \ {e} : evaluations'[x] = evaluations[x]
    /\ UNCHANGED <<courses, matches, clock>>

\* C37: the update-decision operation on an existing Evaluation changes only
\* that Evaluation row: it leaves the status and the completion timestamp of
\* the parent submission unchanged whatever the decisions then are (it
\* neither completes a submission nor reopens one); on an unknown evaluation
\* id it fails and changes nothing.  (For an existing row by contraposition:
\* a step that changes more than the row e is no update-decision on e.)
C37_UpdateChangesOneRow ==
    [][/\ \A e \in DOMAIN evaluations :
             ~OnlyEvaluation(e)
                 => ~\E d \in Decisions \cup {"none"},
                       t \in {NULL, UnknownTarget} \cup TargetIds,
                       ev \in Evaluators : update_evaluation(e, d, t, ev)
       /\ \A ev \in Evaluators :
             update_evaluation(Len(evaluations) + 1, "none", NULL, ev)
                 => /\ response' = "404"
                    /\ evaluations' = evaluations
                    /\ OnlyEvaluation(Len(evaluations) + 1)]_vars

\* C37 witness: a submission left ready for review by its run and never
\* completed, although an update has resolved its last pending course.
C37_Witness ==
    \E s \in DOMAIN submissions :
        /\ submissions[s].status = READY_FOR_REVIEW
        /\ submissions[s].completed_at = NULL
        /\ CoursesOf(courses, s) # {}
        /\ \A c \in CoursesOf(courses, s) : ~Pending(c)
        /\ response = "200"


\* The step belongs to the run of submission s.
RunStep(s) ==
    /\ task[s].pc \in {"run_begin", "run_load", "run_match", "run_finish"}
    /\ task'[s] # task[s]

\* C38: a run and a rematch never create, modify or delete an Evaluation
\* row: the decision, the approved target and the evaluator recorded for
\* every extracted course are after them what they were before, also when
\* the matches of the course are replaced.  (For the rematch by
\* contraposition: a step that changes an Evaluation is no rematch.)
C38_MatchingKeepsEvaluations ==
    [][/\ (\E s \in DOMAIN task : RunStep(s)) => evaluations' = evaluations
       /\ (task' = task /\ evaluations' # evaluations)
             => ~\E c \in DOMAIN courses, raw \in StoringRankResponses :
                    rematch_course(c, raw)]_vars

\* C38 witness: the one course of a submission has a recorded decision, and
\* after it a rematch has run and the match of the course is a later one
\* than the first it had.
C38_Witness ==
    /\ Len(courses) = 1
    /\ ~Pending(1)
    /\ response = "true"
    /\ \E m \in MatchesOf(matches, 1) : m.id > 1

=============================================================================
